---- MODULE Spec2Model ----
(***************************************************************************)
(* A model of the backtest result cache of zrata-trader: the hash          *)
(* generator (engine/cache/hasher.py) and the record models                *)
(* (engine/models/backtest_models.py).                                     *)
(*                                                                         *)
(* The module holds several specifications over one set of variables; each *)
(* drives one component and leaves the other components' variables alone:  *)
(*   SpecHash      hash_strategy_config / hash_parameters on structured    *)
(*                 values and on re-ordered or edited copies of them       *)
(*   SpecMaster    create_backtest_hash                                    *)
(*   SpecIdentity  construction of a BacktestIdentity                      *)
(*   SpecAccess    BacktestRecord.mark_accessed, one call at a time        *)
(*   SpecConc      mark_accessed called from several threads               *)
(*   SpecStats     CacheStats                                              *)
(*   SpecReport    record_hit / record_miss called from several threads    *)
(*   SpecApi       BacktestRecord.to_api_dict                              *)
(*   SpecResult    BacktestResult.from_simulation                          *)
(*   SpecMessages  the message endpoints of main.py                        *)
(*   SpecStorage   a storage backend behind BacktestStorageInterface       *)
(***************************************************************************)
EXTENDS Integers, Sequences, FiniteSets, TLC

VARIABLES
    \* ---- hash_strategy_config / hash_parameters
    cfg,        \* the structured value handed to the hash function
    alt,        \* a second value, derived from cfg
    rel,        \* how alt was derived from cfg
    fn,         \* the hash function that has been applied ("none" before)
    res,        \* its outcome on cfg
    resAlt,     \* its outcome on alt
    \* ---- create_backtest_hash
    comp,       \* the three component strings <<a, b, c>>
    master,     \* create_backtest_hash(a, b, c), or NotRun
    masterSwap, \* create_backtest_hash(b, a, c), or NotRun
    \* ---- BacktestIdentity
    args,       \* the four values handed to the constructor
    identity,   \* the identity constructed, or NoIdentity
    raised,     \* the exception the constructor raised, or "none"
    \* ---- BacktestRecord / BacktestMetadata
    record,     \* the record: identity, metadata, results
    record0,    \* the record as it was created
    now,        \* datetime.now()
    calls,      \* mark_accessed calls completed
    pc,         \* per thread: where it is inside mark_accessed
    tmp,        \* per thread: the access_count it has loaded
    \* ---- CacheStats
    stats,      \* the CacheStats object
    view,       \* the last to_dict() taken of it, or NoView
    \* ---- CacheStats under several threads
    rpc,        \* per thread: where it is inside record_hit / record_miss
    rtmp,       \* per thread: the counter value it has loaded
    rcalls,     \* record_hit / record_miss calls made
    \* ---- BacktestRecord.to_api_dict
    arec,       \* the record to_api_dict is called on
    api,        \* the outcome of to_api_dict, or NotCalled
    \* ---- BacktestResult.from_simulation
    sim,        \* the simulation mapping
    made,       \* the outcome of from_simulation(sim), or NotCalled
    \* ---- a storage backend
    records,    \* the records stored, by master hash
    cstats,     \* the backend's CacheStats
    clock,      \* the time, in days
    ret,        \* the last call on the backend and what it returned
    \* ---- the message store of main.py
    messages_db,
    response    \* the last response of a message endpoint

hashVars     == <<cfg, alt, rel, fn, res, resAlt>>
masterVars   == <<comp, master, masterSwap>>
identityVars == <<args, identity, raised>>
accessVars   == <<record, record0, now, calls, pc, tmp>>
statsVars    == <<stats, view>>
reportVars   == <<rpc, rtmp, rcalls>>
apiVars      == <<arec, api>>
resultVars   == <<sim, made>>
storageVars  == <<records, cstats, clock, ret>>
messageVars  == <<messages_db, response>>
coreVars     == <<hashVars, masterVars, identityVars, accessVars>>
extraVars    == <<reportVars, apiVars, resultVars, storageVars, messageVars>>
vars == <<hashVars, masterVars, identityVars, accessVars, statsVars, extraVars>>

Min(S) == CHOOSE m \in S : \A n \in S : m <= n

(***************************************************************************)
(* Python values.  Numbers carry their type: 1, 1.0 and True are three     *)
(* values that compare equal.  A float's v counts halves (v = 3 is 1.5).   *)
(* A dict is the sequence of its items in insertion order.                 *)
(***************************************************************************)
PyInt(n)    == [t |-> "int", v |-> n]
PyFloat(h)  == [t |-> "float", v |-> h]
PyBool(b)   == [t |-> "bool", v |-> b]
PyStr(s)    == [t |-> "str", s |-> s]
PyNone      == [t |-> "None"]
PyList(es)  == [t |-> "list", elems |-> es]
PyTuple(es) == [t |-> "tuple", elems |-> es]
PyDict(its) == [t |-> "dict", items |-> its]
Item(k, x)  == [k |-> k, val |-> x]

\* The strings of the model, in Python's (code point) order.
StrUniverse == <<"a", "b", "c">>
StrRank(s) == CHOOSE i \in 1..Len(StrUniverse) : StrUniverse[i] = s

IsNum(x) == x.t \in {"int", "float", "bool"}
NumVal(x) == IF x.t = "float" THEN x.v ELSE 2 * x.v
IsSeqLike(x) == x.t \in {"list", "tuple"}
Keys(d) == {d.items[i].k : i \in 1..Len(d.items)}
Lookup(d, k) == d.items[CHOOSE i \in 1..Len(d.items) : d.items[i].k = k].val

\* x == y
RECURSIVE PyEq(_, _)
PyEq(x, y) ==
    IF IsNum(x) /\ IsNum(y) THEN NumVal(x) = NumVal(y)
    ELSE IF x.t # y.t THEN FALSE
    ELSE IF x.t = "str" THEN x.s = y.s
    ELSE IF x.t = "None" THEN TRUE
    ELSE IF IsSeqLike(x) THEN
        /\ Len(x.elems) = Len(y.elems)
        /\ \A i \in 1..Len(x.elems) : PyEq(x.elems[i], y.elems[i])
    ELSE
        /\ Keys(x) = Keys(y)
        /\ \A k \in Keys(x) : PyEq(Lookup(x, k), Lookup(y, k))

\* x < y: "T", "F", or "TypeError" where Python defines no ordering.
RECURSIVE PyLt(_, _)
FirstDiff(x, y) ==
    {i \in 1..Len(x.elems) : i <= Len(y.elems) /\ ~PyEq(x.elems[i], y.elems[i])}

SeqLt(x, y, diff) ==
    IF diff = {} THEN
        IF Len(x.elems) < Len(y.elems) THEN "T" ELSE "F"
    ELSE PyLt(x.elems[Min(diff)], y.elems[Min(diff)])

PyLt(x, y) ==
    IF IsNum(x) /\ IsNum(y) THEN
        IF NumVal(x) < NumVal(y) THEN "T" ELSE "F"
    ELSE IF x.t = "str" /\ y.t = "str" THEN
        IF StrRank(x.s) < StrRank(y.s) THEN "T" ELSE "F"
    ELSE IF IsSeqLike(x) /\ x.t = y.t THEN SeqLt(x, y, FirstDiff(x, y))
    ELSE "TypeError"

(***************************************************************************)
(* Outcomes of a call: a value, or an exception.                           *)
(***************************************************************************)
Ok(x) == [ok |-> TRUE, val |-> x]
Raise(e, m) == [ok |-> FALSE, exc |-> e, msg |-> m]
SortFailed == Raise("TypeError", "'<' not supported")
NotCalled == [ok |-> FALSE, exc |-> "none", msg |-> "not called"]

(***************************************************************************)
(* sorted(): CPython's list sort on a short list, which is a binary        *)
(* insertion sort started after the first run; stable; an exception of a   *)
(* comparison ends it.                                                     *)
(***************************************************************************)
Reverse(s) == [i \in 1..Len(s) |-> s[Len(s) + 1 - i]]

\* Where the run that starts at s[1] ends; desc: the run descends strictly.
RECURSIVE RunEnd(_, _, _)
RunNext(s, i, desc, c) ==
    IF c = "TypeError" THEN SortFailed
    ELSE IF (c = "T") = desc THEN RunEnd(s, i + 1, desc)
    ELSE Ok(i)

RunEnd(s, i, desc) ==
    IF i >= Len(s) THEN Ok(i)
    ELSE RunNext(s, i, desc, PyLt(s[i + 1], s[i]))

RunOf(r, desc) ==
    IF ~r.ok THEN SortFailed
    ELSE [ok |-> TRUE, val |-> r.val, desc |-> desc]

RunFrom(s, c) ==
    IF c = "TypeError" THEN SortFailed
    ELSE RunOf(RunEnd(s, 2, c = "T"), c = "T")

count_run(s) ==
    IF Len(s) <= 1 THEN [ok |-> TRUE, val |-> Len(s), desc |-> FALSE]
    ELSE RunFrom(s, PyLt(s[2], s[1]))

\* Where pivot goes among s[1..n], sorted: after the last element not above it.
RECURSIVE BinarySearch(_, _, _, _)
Narrow(s, pivot, l, r, p, c) ==
    IF c = "TypeError" THEN SortFailed
    ELSE IF c = "T" THEN BinarySearch(s, pivot, l, p)
    ELSE BinarySearch(s, pivot, p + 1, r)

Probe(s, pivot, l, r, p) == Narrow(s, pivot, l, r, p, PyLt(pivot, s[p + 1]))

BinarySearch(s, pivot, l, r) ==
    IF l >= r THEN Ok(l)
    ELSE Probe(s, pivot, l, r, l + ((r - l) \div 2))

InsertAt(s, n, at, pivot) ==
    [i \in 1..Len(s) |->
        IF i <= at THEN s[i]
        ELSE IF i = at + 1 THEN pivot
        ELSE IF i <= n + 1 THEN s[i - 1]
        ELSE s[i]]

\* s[1..n] is sorted; insert s[n+1], s[n+2], ... in turn.
RECURSIVE binarysort(_, _)
InsertNext(s, n, at) ==
    IF ~at.ok THEN SortFailed
    ELSE binarysort(InsertAt(s, n, at.val, s[n + 1]), n + 1)

binarysort(s, n) ==
    IF n >= Len(s) THEN Ok(s)
    ELSE InsertNext(s, n, BinarySearch(s, s[n + 1], 0, n))

SortAfterRun(s, run) ==
    IF ~run.ok THEN SortFailed
    ELSE binarysort((IF run.desc THEN Reverse(SubSeq(s, 1, run.val))
                                 ELSE SubSeq(s, 1, run.val))
                        \o SubSeq(s, run.val + 1, Len(s)),
                    run.val)

sorted(s) == SortAfterRun(s, count_run(s))

(***************************************************************************)
(* BacktestHashGenerator                                                   *)
(***************************************************************************)
Unsortable == Raise("TypeError", "Unsortable list items found")

FirstFailure(rs) == rs[Min({i \in DOMAIN rs : ~rs[i].ok})]
AllOk(rs) == \A i \in DOMAIN rs : rs[i].ok
Vals(rs) == [i \in DOMAIN rs |-> rs[i].val]

\* data.items(): the (key, value) tuples of a dict, in insertion order.
items(data) ==
    [i \in 1..Len(data.items) |->
        PyTuple(<<PyStr(data.items[i].k), data.items[i].val>>)]

RECURSIVE normalize_dict(_)

\* {key: _normalize_dict(value) for key, value in <its>}
DictOf(its, vals) ==
    IF ~AllOk(vals) THEN FirstFailure(vals)
    ELSE Ok(PyDict([i \in 1..Len(its) |-> Item(its[i].elems[1].s, vals[i].val)]))

NormalizeItems(its) ==
    IF ~its.ok THEN its
    ELSE DictOf(its.val, [i \in 1..Len(its.val) |-> normalize_dict(its.val[i].elems[2])])

\* A list that cannot be sorted is returned in the order given.
ExceptTypeError_keep_unsorted(norm, s) ==
    IF ~AllOk(norm) THEN FirstFailure(norm)
    ELSE IF ~s.ok THEN Ok(PyList(Vals(norm)))
    ELSE Ok(PyList(s.val))

\* try: return sorted([...])  except TypeError: raise TypeError("Unsortable ...")
\* norm: the outcomes of the comprehension; s: the outcome of sorted()
ExceptTypeError(norm, s) ==
    IF ~AllOk(norm) THEN
        IF FirstFailure(norm).exc = "TypeError" THEN Unsortable
        ELSE FirstFailure(norm)
    ELSE IF ~s.ok THEN
        IF s.exc = "TypeError" THEN Unsortable ELSE s
    ELSE Ok(PyList(s.val))

TrySorted(norm) ==
    ExceptTypeError(norm, IF AllOk(norm) THEN sorted(Vals(norm)) ELSE SortFailed)

normalize_dict(data) ==
    IF data.t = "dict" THEN NormalizeItems(sorted(items(data)))
    ELSE IF data.t = "list" THEN
        TrySorted([i \in 1..Len(data.elems) |-> normalize_dict(data.elems[i])])
    ELSE Ok(data)

(***************************************************************************)
(* json.dumps(obj, sort_keys=True, separators=(',', ':')): the text.       *)
(***************************************************************************)
float_repr(h) == ToString(h \div 2) \o (IF h % 2 = 0 THEN ".0" ELSE ".5")

RECURSIVE Join(_, _)
Join(strs, sep) ==
    IF Len(strs) = 0 THEN ""
    ELSE IF Len(strs) = 1 THEN strs[1]
    ELSE strs[1] \o sep \o Join(Tail(strs), sep)

\* A scalar's text; True and False are written as the integers they equal.
dumps_scalar_bool_as_int(x) ==
    IF x.t = "int" THEN ToString(x.v)
    ELSE IF x.t = "float" THEN float_repr(x.v)
    ELSE IF x.t = "bool" THEN ToString(x.v)
    ELSE IF x.t = "None" THEN "null"
    ELSE "\"" \o x.s \o "\""

dumps_scalar(x) ==
    IF x.t = "int" THEN ToString(x.v)
    ELSE IF x.t = "float" THEN float_repr(x.v)
    ELSE IF x.t = "bool" THEN (IF x.v = 1 THEN "true" ELSE "false")
    ELSE IF x.t = "None" THEN "null"
    ELSE "\"" \o x.s \o "\""

RECURSIVE json_dumps(_)
DumpItems(its) ==
    "{" \o Join([i \in 1..Len(its) |->
                    "\"" \o its[i].elems[1].s \o "\":" \o json_dumps(its[i].elems[2])],
                ",") \o "}"

json_dumps(obj) ==
    IF obj.t = "dict" THEN DumpItems(sorted(items(obj)).val)
    ELSE IF obj.t = "list" THEN
        "[" \o Join([i \in 1..Len(obj.elems) |-> json_dumps(obj.elems[i])], ",") \o "]"
    ELSE dumps_scalar(obj)

\* The same text with the items of every dict in insertion order.
RECURSIVE json_dumps_unsorted(_)
json_dumps_unsorted(obj) ==
    IF obj.t = "dict" THEN
        "{" \o Join([i \in 1..Len(obj.items) |->
                        "\"" \o obj.items[i].k \o "\":" \o json_dumps_unsorted(obj.items[i].val)],
                    ",") \o "}"
    ELSE IF obj.t = "list" THEN
        "[" \o Join([i \in 1..Len(obj.elems) |-> json_dumps_unsorted(obj.elems[i])], ",") \o "]"
    ELSE dumps_scalar(obj)

\* hashlib.sha256(s.encode('utf-8')).hexdigest(): 64 hexadecimal characters
\* that stand for s and for no other string.
sha256_hexdigest(s) == [sha256 |-> s]

DigestOf(normalized) ==
    IF ~normalized.ok THEN normalized
    ELSE Ok(sha256_hexdigest(json_dumps(normalized.val)))

\* The configuration is serialized as it comes, neither normalized nor sorted.
hash_strategy_config_as_given(strategy_config) ==
    Ok(sha256_hexdigest(json_dumps_unsorted(strategy_config)))

hash_strategy_config(strategy_config) == DigestOf(normalize_dict(strategy_config))

hash_parameters(params) == DigestOf(normalize_dict(params))

(***************************************************************************)
(* The structured values handed to the hash functions.                     *)
(***************************************************************************)
MaxListLen == 2

Scalars == {PyInt(0), PyInt(1), PyFloat(2), PyBool(1), PyStr("a"), PyStr("b"), PyNone}

SeqsUpTo(S, n) == UNION {[1..k -> S] : k \in 0..n}

ScalarLists == {PyList(es) : es \in SeqsUpTo(Scalars, MaxListLen)}

SmallDicts ==
    {PyDict(<<>>)}
    \cup {PyDict(<<Item(k, x)>>) : k \in {"a", "b"}, x \in {PyInt(0), PyInt(1)}}
    \cup {PyDict(<<Item(k[1], x), Item(k[2], y)>>) :
            k \in {<<"a", "b">>, <<"b", "a">>}, x \in {PyInt(0)}, y \in {PyInt(0), PyInt(1)}}

\* lists of mappings
DictLists ==
    {PyList(es) : es \in SeqsUpTo({PyDict(<<Item("a", PyInt(0))>>),
                                  PyDict(<<Item("a", PyInt(1))>>),
                                  PyDict(<<Item("a", PyInt(0)), Item("b", PyInt(1))>>),
                                  PyDict(<<Item("b", PyInt(1)), Item("a", PyInt(0))>>)},
                                 MaxListLen)}

\* lists of lists
ListLists ==
    {PyList(es) : es \in SeqsUpTo({PyList(<<>>),
                                  PyList(<<PyInt(1)>>),
                                  PyList(<<PyNone>>),
                                  PyList(<<PyInt(1), PyInt(0)>>),
                                  PyList(<<PyInt(1), PyStr("a")>>),
                                  PyList(<<PyDict(<<Item("b", PyInt(1)), Item("a", PyInt(0))>>)>>)},
                                 MaxListLen)}

Leaves == Scalars \cup ScalarLists \cup SmallDicts \cup DictLists \cup ListLists

\* mappings that hold a list one level further down
NestedDicts == {PyDict(<<Item("c", x)>>) : x \in ScalarLists \cup DictLists}

Siblings == {PyInt(0), PyStr("a"), PyList(<<PyInt(1), PyInt(0)>>),
             PyDict(<<Item("b", PyInt(1)), Item("a", PyInt(0))>>)}

Configs ==
    {PyDict(<<>>)}
    \cup {PyDict(<<Item("a", x)>>) : x \in Leaves \cup NestedDicts}
    \cup {PyDict(<<Item("a", x), Item("b", y)>>) : x \in Leaves \cup NestedDicts, y \in Siblings}
    \cup {PyDict(<<Item("b", y), Item("a", x)>>) : x \in Leaves \cup NestedDicts, y \in Siblings}

(***************************************************************************)
(* Values derived from a value: its items or its lists re-ordered, one of  *)
(* its scalars replaced.                                                   *)
(***************************************************************************)
Orderings(n) == {p \in [1..n -> 1..n] : \A i, j \in 1..n : p[i] = p[j] => i = j}

\* Every way to take one element from each set of a sequence of sets.
Choices(opts) ==
    {c \in [DOMAIN opts -> UNION {opts[i] : i \in DOMAIN opts}] :
        \A i \in DOMAIN opts : c[i] \in opts[i]}

RECURSIVE KeyPerms(_)
KeyPerms(x) ==
    IF x.t = "dict" THEN
        LET n == Len(x.items)
            opts == [i \in 1..n |-> KeyPerms(x.items[i].val)]
        IN  {PyDict([i \in 1..n |-> Item(x.items[p[i]].k, c[p[i]])]) :
                p \in Orderings(n), c \in Choices(opts)}
    ELSE IF x.t = "list" THEN
        {PyList(c) : c \in Choices([i \in 1..Len(x.elems) |-> KeyPerms(x.elems[i])])}
    ELSE {x}

RECURSIVE ListPerms(_)
ListPerms(x) ==
    IF x.t = "dict" THEN
        LET n == Len(x.items)
            opts == [i \in 1..n |-> ListPerms(x.items[i].val)]
        IN  {PyDict([i \in 1..n |-> Item(x.items[i].k, c[i])]) : c \in Choices(opts)}
    ELSE IF x.t = "list" THEN
        LET n == Len(x.elems)
            opts == [i \in 1..n |-> ListPerms(x.elems[i])]
        IN  {PyList([i \in 1..n |-> c[p[i]]]) : p \in Orderings(n), c \in Choices(opts)}
    ELSE {x}

RECURSIVE ScalarEdits(_)
ScalarEdits(x) ==
    IF x.t = "dict" THEN
        UNION {{PyDict([x.items EXCEPT ![i] = Item(x.items[i].k, e)]) :
                    e \in ScalarEdits(x.items[i].val)} : i \in 1..Len(x.items)}
    ELSE IF x.t = "list" THEN
        UNION {{PyList([x.elems EXCEPT ![i] = e]) :
                    e \in ScalarEdits(x.elems[i])} : i \in 1..Len(x.elems)}
    ELSE Scalars \ {x}

(***************************************************************************)
(* SpecHash                                                                *)
(***************************************************************************)
exceptHash == <<masterVars, identityVars, accessVars, statsVars, extraVars>>

NotRun == [ok |-> FALSE, exc |-> "none", msg |-> "not run"]

InitHash ==
    /\ alt = cfg
    /\ rel = "same"
    /\ fn = "none"
    /\ res = NotRun
    /\ resAlt = NotRun

ReorderKeys ==
    /\ fn = "none" /\ rel = "same"
    /\ \E w \in KeyPerms(cfg) \ {cfg} : alt' = w
    /\ rel' = "keys"
    /\ UNCHANGED <<cfg, fn, res, resAlt>>
    /\ UNCHANGED exceptHash

ReorderLists ==
    /\ fn = "none" /\ rel = "same"
    /\ \E w \in ListPerms(cfg) \ {cfg} : alt' = w
    /\ rel' = "lists"
    /\ UNCHANGED <<cfg, fn, res, resAlt>>
    /\ UNCHANGED exceptHash

EditScalar ==
    /\ fn = "none" /\ rel = "same"
    /\ \E w \in ScalarEdits(cfg) : alt' = w
    /\ rel' = "scalar"
    /\ UNCHANGED <<cfg, fn, res, resAlt>>
    /\ UNCHANGED exceptHash

HashStrategyConfig ==
    /\ fn = "none"
    /\ fn' = "hash_strategy_config"
    /\ res' = hash_strategy_config(cfg)
    /\ resAlt' = hash_strategy_config(alt)
    /\ UNCHANGED <<cfg, alt, rel>>
    /\ UNCHANGED exceptHash

HashParameters ==
    /\ fn = "none"
    /\ fn' = "hash_parameters"
    /\ res' = hash_parameters(cfg)
    /\ resAlt' = hash_parameters(alt)
    /\ UNCHANGED <<cfg, alt, rel>>
    /\ UNCHANGED exceptHash

(***************************************************************************)
(* create_backtest_hash.  Here a string is the sequence of its characters. *)
(***************************************************************************)
MaxCompLen == 2

Alphabet == {"a", "b", ":"}
CompStrings == SeqsUpTo(Alphabet, MaxCompLen)

\* The three strings are joined with nothing between them.
create_backtest_hash_no_delimiter(data_hash, strategy_hash, params_hash) ==
    sha256_hexdigest(data_hash \o strategy_hash \o params_hash)

create_backtest_hash(data_hash, strategy_hash, params_hash) ==
    LET combined == data_hash \o <<":">> \o strategy_hash \o <<":">> \o params_hash
    IN  sha256_hexdigest(combined)

NoDigest == [sha256 |-> <<"not run">>]

exceptMaster == <<hashVars, identityVars, accessVars, statsVars, extraVars>>

InitMaster ==
    /\ master = NoDigest
    /\ masterSwap = NoDigest

CreateBacktestHash ==
    /\ master = NoDigest
    /\ master' = create_backtest_hash(comp[1], comp[2], comp[3])
    /\ masterSwap' = create_backtest_hash(comp[2], comp[1], comp[3])
    /\ UNCHANGED comp
    /\ UNCHANGED exceptMaster

(***************************************************************************)
(* BacktestIdentity.  A value handed to the constructor is a str (the      *)
(* sequence of its characters), an int, or None.                           *)
(***************************************************************************)
HashLen == 64

PyText(cs) == [t |-> "str", chars |-> cs]
Repeat(c, n) == [i \in 1..n |-> c]

HexChars == {"0", "1", "2", "3", "4", "5", "6", "7", "8", "9",
             "a", "b", "c", "d", "e", "f", "A", "B", "C", "D", "E", "F"}

HashCandidates ==
    {PyText(Repeat("a", HashLen)),                      \* 64 hex characters
     PyText(Repeat("0", HashLen)),
     PyText(Repeat("g", HashLen)),                      \* 64 characters, none hex
     PyText(Repeat("a", HashLen - 1) \o <<"z">>),       \* 64 characters, one not hex
     PyText(Repeat("a", HashLen - 1)),
     PyText(Repeat("a", HashLen + 1)),
     PyText(<<>>),
     PyInt(HashLen),
     PyNone}

isinstance_str(x) == x.t = "str"

(***************************************************************************)
(* The hexadecimal text of a SHA-256 digest.  The texts of 64 characters   *)
(* among the candidates are Texts64; Sha256Hex[i][j][k] is the digest of   *)
(* Texts64[i] ":" Texts64[j] ":" Texts64[k], as hashlib computes it.       *)
(***************************************************************************)
Texts64 ==
    <<Repeat("a", HashLen), Repeat("0", HashLen), Repeat("g", HashLen),
      Repeat("a", HashLen - 1) \o <<"z">>>>

Sha256Hex ==
  <<
    <<
      <<"771f7c7c015237909279f4dbd6d0ddb0ba0500204fba33b5c2ba43a1ca879863",
        "5df0c4f9739765a7207de76ae924015a806ec5b5bcce0e2f9c87b6d6984d00db",
        "7e015ff6ba5cc0656330dc19062dd8c47fdd0de910a4bff83239c941e3db4255",
        "233397606d8324312e1558470e42b389dcbc7ef14252c02fd8409780c2380c21">>,
      <<"80875daf5792e0f061ab7f2ed644b2244801163b6936ed74269fbfe9c513d3a3",
        "fac58b6c21f5ecfb969cf3bcee61895c2fad61cfec01f41969ad605af20b7e36",
        "23d17cd1d0ed5f65f91d1688e1d1bfea61dbdeadac64ce8615787ce71901686d",
        "c7680047fff93d80fedcfade8aa22617c2f80c21f4a848cfc7d9f99e704100db">>,
      <<"8733772f0ad3fc22967cd3ac3defed337c8ac89d47da7538237723530e962523",
        "ee11ef9beda775d004c444e6c31f79157f6d9cda6560ecafedd2faebb13568f8",
        "c27c3acba14266b3a04ad47e227d51abc375b5f7759bef5241e0451fd786a18d",
        "368d7858165b68c0f52000e9bf732196a7e3e60fbaa37243101cec1fbd0cf583">>,
      <<"8664500bcd993caaf9e62828383c916f5b5cc0c503a0ed3cc184a8c69274ced8",
        "f7ffa6d63069ea20d91633775052a1b5026d503f2c69d48903c9aadea0cb12aa",
        "d787ca24faebd531c1170998a7e0f2cfa5291f03512dff9aae32c445e41f51a4",
        "72cd90a5ef203428f6547ba6a4919a03e1d2bd8f1b69a3fe88805f8786eeaafc">>>>,
    <<
      <<"33d240fe959f170f7a65a3336f156040e8f00f8438475f9c5b8cef05033dd2fa",
        "605afad83e1c7f82658edae9c4f8316ea70442e48144fef357d2a1985097450b",
        "d4d9159ef51f8093fa53756f358d3c540232de9b21bbf7c606d3c7e633ed337c",
        "a9ed5d3c06aa5248bacd44fc8fc355a6a248a30d58cf646eb2c55fe7f812b5ab">>,
      <<"f8443d7e06d1fad7a0828eab254550c54d5b2224bfda62f190cfd794477e9141",
        "bc03215f35abb9befe75669f0d89d0d753fc0b75a2bb78d03e64211656347923",
        "a78992139656e3ca9c98bb8751557767a76f5e5d256a25f878fe3ea7212d9a22",
        "09c1c739673f578f13fcaf1bf32a5d2b625134a57c1ba78286a1287d8508f42c">>,
      <<"bc019d6fd21e4384ea9763536f0fa80fadcb513ad72df9bc339ff73b52d2569f",
        "1247b8f475804960b3826e22d17a1d9fcb0c804d5c406bd69cc0314bec18d0a4",
        "3db443dfdf79227a8f735b310f08a92d82aadd7d2bb9000e1196b0e537e219e8",
        "786363e8a7d1d23ad675136e3878e5b2156ee366bbff86e73e2c2cdffb2afbc5">>,
      <<"da55aa31a82299b5b06b56d11a5ddc0dd7f48c0e732dc480d63fa32c8f6ff333",
        "239da31e2a685e82e033aeba4553a7e682f71ea18106e5d04001174a322f4cbd",
        "e937e87ed0dcde2e9a9de2438ab98f2b2eb12952d65396ba274bb9d58ce9d333",
        "6e0b193c0dbe9f0587bb93319626a9da1fdd4a49b3489cfd4d59540d89789edd">>>>,
    <<
      <<"a2a9803a17f8fbde82be3471fa959b3718b94010a1d4da11c888429054853667",
        "977b146301a528c04fe59ba75eb5e3859a4dee6729a6bbb695c242832d54bf72",
        "e45e5a43b6fdb578633d8c535112035b94d74e1ea1fdb99b8a8abb13f240fb7d",
        "db78967ac4f02b13f43831c7be2d31ed36a3dc6bad1b100b010ed7ec1e606f80">>,
      <<"c3372b599fa75f9d0ad0abce89a555a24a61be6c64c006e8d140e35f863152ed",
        "80df6a2b5e54d59ea7933116416e42b84bc93afec00b88b680b50c51f1656c74",
        "ad6b9a7eaa8443fd1bdd5ef3a1ad90f18c2f499badca78ed3f4169146552b0be",
        "299a2e00607bb4b2ef41ce0c731a131f884a5213e4ea62071d5d86b32408e821">>,
      <<"a692a664a45fd863db2e889bf981b72122fa20e95a491086d6d23f2a583c9ad5",
        "331bdf27ed22bf1c53373f53588de58f6ab9ffd7e31f9537bbacd2fd3a76377d",
        "91b3c8b99951370d0bb28bc7a91053b4d2118bc78fb9efedb6e9ebcf2e6b5e68",
        "0d8542bc0f71ff03b6a3caac7b9b87c050faae8045dfdde79d11acadb75020cb">>,
      <<"6ed4a7da080fdd33d6205d770e06d4d0db335d265e1f5d2f663f340f7c8cb7e9",
        "1f880013ebed42345dc22af6f1846208e71a9b655ea1f10c60a6a03aef95345d",
        "7ee3be28d6d9b81a7dd4da8923c0a5ef717e48d308e949088eb55fb2d7625607",
        "aa769e43b4e85d772e516a6c7b012d30a572846ed1f03f8bfca3ae9d2c97f99a">>>>,
    <<
      <<"f2fdde17efb4c7f53a863ba3d88cfba3a19bf786bfc775da3d2a165b2172dc33",
        "7e3cbd24884e2dc6a18fe20754a1e145dc713a7693dd5ee27646c843f9090c3c",
        "9a65fb0bb4f9ad41fd49c93c97eb18dcc08a08b6a1cb6c9f2d82efa4e3313802",
        "1f8c6b8a4b6010656aaa3257ff2ca0bc8b8448a0c9010b3302f47a6f38405e10">>,
      <<"c32ce09040a2bea55a7703840acab29405410a08af02f3df629cea4facdcb430",
        "eef8910609cb0416d5fac6e556f68fcd5d9444b2855344920cf77422d182e9ad",
        "12febfea86481d2fa0db82805492f62373eb538b98f7e2dcba79dad69c7b7775",
        "84aae7ea11dc2bb67cb019a40fa580e69c110dc53e16a658c962ae9be69b3fb4">>,
      <<"dea77ff322fa485b5619bcf2815f72350f3c94afd504bb51c42c1df6c52c511d",
        "3bc15af070c64ef6b614390b5a803e2bb768f7cbfed0694dbe90295b72ceeda8",
        "8b014e73c82dda41830d3ca3205d618bf95a94df671a3ec664a47ba1efd4e1d4",
        "410df8e379d76259152c95f2b57235815847cfdc274f09488bd1d8b95dc5ee55">>,
      <<"2729333cf3c6637a3f37f9dace37953a440b83b68886df8588119de9cb5c43cb",
        "a8e3618fe9c8aa78477f283603390e0642085f2bb7042858c6bb843f2b8359a0",
        "16398d7f869b1beb005545960416690c2f1947bd8d1dcf6e51ccd8dc11020294",
        "f3685dec82f0450ec2d88651cc99895827c3ff34197147545a493ef604194354">>>>>>

Triples == (1..4) \X (1..4) \X (1..4)

\* what create_backtest_hash digests for the triple t of Texts64
Combined(t) ==
    Texts64[t[1]] \o <<":">> \o Texts64[t[2]] \o <<":">> \o Texts64[t[3]]

HexOfTriple(t) == Sha256Hex[t[1]][t[2]][t[3]]

\* .hexdigest() of a digest that create_backtest_hash has made
hexdigest(d) == HexOfTriple(CHOOSE t \in Triples : Combined(t) = d.sha256)

\* the characters of a text, as one string
RECURSIVE Concat(_)
Concat(cs) == IF cs = <<>> THEN "" ELSE Head(cs) \o Concat(Tail(cs))

\* create_backtest_hash("a" * 64, "a" * 64, "a" * 64), character by character
DerivedMaster ==
    PyText(<<"7", "7", "1", "f", "7", "c", "7", "c", "0", "1", "5", "2", "3",
        "7", "9", "0", "9", "2", "7", "9", "f", "4", "d", "b", "d", "6", "d",
        "0", "d", "d", "b", "0", "b", "a", "0", "5", "0", "0", "2", "0", "4",
        "f", "b", "a", "3", "3", "b", "5", "c", "2", "b", "a", "4", "3", "a",
        "1", "c", "a", "8", "7", "9", "8", "6", "3">>)

MasterCandidates == HashCandidates \cup {DerivedMaster}

NoIdentity == [t |-> "None"]

\* The master hash is stored as it is given, without a look at it.
BacktestIdentity_master_unchecked(data_hash, strategy_hash, params_hash, master_hash) ==
    LET hashes == <<data_hash, strategy_hash, params_hash>>
        bad == {i \in 1..3 : ~isinstance_str(hashes[i]) \/ Len(hashes[i].chars) # HashLen}
    IN  IF bad # {} THEN Raise("ValueError", "Invalid hash format")
        ELSE Ok([data_hash |-> data_hash, strategy_hash |-> strategy_hash,
                 params_hash |-> params_hash, master_hash |-> master_hash])

\* The dataclass constructor followed by __post_init__.
BacktestIdentity(data_hash, strategy_hash, params_hash, master_hash) ==
    LET hashes == <<data_hash, strategy_hash, params_hash, master_hash>>
        bad == {i \in 1..4 : ~isinstance_str(hashes[i]) \/ Len(hashes[i].chars) # HashLen}
    IN  IF bad # {} THEN Raise("ValueError", "Invalid hash format")
        ELSE Ok([data_hash |-> data_hash, strategy_hash |-> strategy_hash,
                 params_hash |-> params_hash, master_hash |-> master_hash])

exceptIdentity == <<hashVars, masterVars, accessVars, statsVars, extraVars>>

InitIdentity ==
    /\ identity = NoIdentity
    /\ raised = "not called"

Construct ==
    /\ raised = "not called"
    /\ LET r == BacktestIdentity(args[1], args[2], args[3], args[4])
       IN  /\ identity' = IF r.ok THEN r.val ELSE NoIdentity
           /\ raised' = IF r.ok THEN "none" ELSE r.exc
    /\ UNCHANGED args
    /\ UNCHANGED exceptIdentity

(***************************************************************************)
(* BacktestMetadata, BacktestRecord.  Times are ticks of the clock.        *)
(***************************************************************************)
MaxTime == 4
MaxCalls == 4
NumCallers == 2

Callers == 1..NumCallers

\* last_accessed is set and the count is left as it was.
BacktestMetadata_mark_accessed_no_count(self, t) ==
    [self EXCEPT !.last_accessed = t]

\* BacktestMetadata.mark_accessed, with t the value of datetime.now()
BacktestMetadata_mark_accessed(self, t) ==
    [self EXCEPT !.last_accessed = t, !.access_count = @ + 1]

\* BacktestRecord.master_hash
BacktestRecord_master_hash(self) == self.identity.master_hash

\* BacktestRecord.mark_accessed
BacktestRecord_mark_accessed(self, t) ==
    [self EXCEPT !.metadata = BacktestMetadata_mark_accessed(@, t)]

\* BacktestMetadata(created_at, last_accessed[, access_count])
BacktestMetadata(created_at, last_accessed, access_count) ==
    [created_at |-> created_at, last_accessed |-> last_accessed,
     access_count |-> access_count, execution_time_seconds |-> 0,
     data_filename |-> "None", data_size_bytes |-> 0, data_rows |-> 0]

BacktestRecord(id, metadata, results) ==
    [identity |-> id, metadata |-> metadata, results |-> results]

DefaultAccessCount == 1

Records ==
    {BacktestRecord(id, BacktestMetadata(c, c, n), r) :
        id \in {"id1", "id2"}, c \in 0..1, n \in {DefaultAccessCount, 3},
        r \in {"results1", "results2"}}

exceptAccess == <<hashVars, masterVars, identityVars, statsVars, extraVars>>

InitAccess ==
    /\ record0 = record
    /\ now = record.metadata.created_at
    /\ calls = 0
    /\ pc = [c \in Callers |-> "idle"]
    /\ tmp = [c \in Callers |-> 0]

\* the clock advances
Tick ==
    /\ now < MaxTime
    /\ now' = now + 1
    /\ UNCHANGED <<record, record0, calls, pc, tmp>>
    /\ UNCHANGED exceptAccess

\* record.mark_accessed(), from the call to its return
MarkAccessed ==
    /\ calls < MaxCalls
    /\ record' = BacktestRecord_mark_accessed(record, now)
    /\ calls' = calls + 1
    /\ UNCHANGED <<record0, now, pc, tmp>>
    /\ UNCHANGED exceptAccess

(***************************************************************************)
(* mark_accessed called from several threads: the statements of            *)
(* BacktestMetadata.mark_accessed one at a time, and the += as the read    *)
(* and the write it is.  Nothing in the code orders the threads.           *)
(***************************************************************************)
\* self.last_accessed = datetime.now()
SetLastAccessed(c) ==
    /\ pc[c] = "idle"
    /\ record' = [record EXCEPT !.metadata.last_accessed = now]
    /\ pc' = [pc EXCEPT ![c] = "load"]
    /\ UNCHANGED <<record0, now, calls, tmp>>
    /\ UNCHANGED exceptAccess

\* self.access_count += 1: the read
LoadAccessCount(c) ==
    /\ pc[c] = "load"
    /\ tmp' = [tmp EXCEPT ![c] = record.metadata.access_count]
    /\ pc' = [pc EXCEPT ![c] = "store"]
    /\ UNCHANGED <<record, record0, now, calls>>
    /\ UNCHANGED exceptAccess

\* self.access_count += 1: the write
StoreAccessCount(c) ==
    /\ pc[c] = "store"
    /\ record' = [record EXCEPT !.metadata.access_count = tmp[c] + 1]
    /\ calls' = calls + 1
    /\ pc' = [pc EXCEPT ![c] = "done"]
    /\ UNCHANGED <<record0, now, tmp>>
    /\ UNCHANGED exceptAccess

(***************************************************************************)
(* CacheStats.  A rate is the exact fraction num / den; a percentage of    *)
(* to_dict is counted in hundredths (10000 is 100.0).                      *)
(***************************************************************************)
MaxRequests == 8

Rat(n, d) == [num |-> n, den |-> d]
RatEq(p, q) == p.num * q.den = q.num * p.den

\* CacheStats(): every field at its default
CacheStats ==
    [total_records |-> 0, total_data_hashes |-> 0, total_strategy_hashes |-> 0,
     cache_hits |-> 0, cache_misses |-> 0, total_requests |-> 0]

hit_rate(self) ==
    IF self.total_requests = 0 THEN Rat(0, 1)
    ELSE Rat(self.cache_hits, self.total_requests)

\* 1.0 - self.hit_rate
miss_rate(self) ==
    LET h == hit_rate(self) IN Rat(h.den - h.num, h.den)

\* The request is counted and the hit is not.
record_hit_only_a_request(self) ==
    [self EXCEPT !.total_requests = @ + 1]

record_hit(self) ==
    [self EXCEPT !.cache_hits = @ + 1, !.total_requests = @ + 1]

\* The miss is counted and the request is not.
record_miss_not_a_request(self) ==
    [self EXCEPT !.cache_misses = @ + 1]

record_miss(self) ==
    [self EXCEPT !.cache_misses = @ + 1, !.total_requests = @ + 1]

\* round(rate * 100, 2), in hundredths; a tie goes to the even neighbour
RoundPercent(r) ==
    LET n == r.num * 10000
        q == n \div r.den
        twice == 2 * (n % r.den)
    IN  IF twice > r.den \/ (twice = r.den /\ q % 2 = 1) THEN q + 1 ELSE q

to_dict(self) ==
    [total_records |-> self.total_records,
     total_data_hashes |-> self.total_data_hashes,
     total_strategy_hashes |-> self.total_strategy_hashes,
     cache_hits |-> self.cache_hits,
     cache_misses |-> self.cache_misses,
     total_requests |-> self.total_requests,
     hit_rate |-> RoundPercent(hit_rate(self)),
     miss_rate |-> RoundPercent(miss_rate(self))]

NoView == [taken |-> FALSE]

exceptStats == <<hashVars, masterVars, identityVars, accessVars, extraVars>>

InitStats ==
    /\ stats = CacheStats
    /\ view = NoView

RecordHit ==
    /\ stats.total_requests < MaxRequests
    /\ stats' = record_hit(stats)
    /\ UNCHANGED view
    /\ UNCHANGED exceptStats

RecordMiss ==
    /\ stats.total_requests < MaxRequests
    /\ stats' = record_miss(stats)
    /\ UNCHANGED view
    /\ UNCHANGED exceptStats

ToDict ==
    /\ view' = to_dict(stats)
    /\ UNCHANGED stats
    /\ UNCHANGED exceptStats

(***************************************************************************)
(* record_hit and record_miss called from several threads while another    *)
(* thread takes to_dict().  Each += is the read and the write it is;       *)
(* nothing in the code orders the threads.  to_dict() is taken in one      *)
(* step, which is the most a reader can hope for.                          *)
(***************************************************************************)
NumReporters == 2
MaxReports == 3

Reporters == 1..NumReporters

exceptReport == <<coreVars, apiVars, resultVars, storageVars, messageVars>>

InitReport ==
    /\ rpc = [c \in Reporters |-> "idle"]
    /\ rtmp = [c \in Reporters |-> 0]
    /\ rcalls = 0

\* record_hit is called; self.cache_hits += 1: the read
LoadCacheHits(c) ==
    /\ rpc[c] = "idle"
    /\ rcalls < MaxReports
    /\ rcalls' = rcalls + 1
    /\ rtmp' = [rtmp EXCEPT ![c] = stats.cache_hits]
    /\ rpc' = [rpc EXCEPT ![c] = "store_hits"]
    /\ UNCHANGED <<stats, view>>
    /\ UNCHANGED exceptReport

\* self.cache_hits += 1: the write
StoreCacheHits(c) ==
    /\ rpc[c] = "store_hits"
    /\ stats' = [stats EXCEPT !.cache_hits = rtmp[c] + 1]
    /\ rpc' = [rpc EXCEPT ![c] = "load_total"]
    /\ UNCHANGED <<view, rtmp, rcalls>>
    /\ UNCHANGED exceptReport

\* record_miss is called; self.cache_misses += 1: the read
LoadCacheMisses(c) ==
    /\ rpc[c] = "idle"
    /\ rcalls < MaxReports
    /\ rcalls' = rcalls + 1
    /\ rtmp' = [rtmp EXCEPT ![c] = stats.cache_misses]
    /\ rpc' = [rpc EXCEPT ![c] = "store_misses"]
    /\ UNCHANGED <<stats, view>>
    /\ UNCHANGED exceptReport

\* self.cache_misses += 1: the write
StoreCacheMisses(c) ==
    /\ rpc[c] = "store_misses"
    /\ stats' = [stats EXCEPT !.cache_misses = rtmp[c] + 1]
    /\ rpc' = [rpc EXCEPT ![c] = "load_total"]
    /\ UNCHANGED <<view, rtmp, rcalls>>
    /\ UNCHANGED exceptReport

\* self.total_requests += 1: the read
LoadTotalRequests(c) ==
    /\ rpc[c] = "load_total"
    /\ rtmp' = [rtmp EXCEPT ![c] = stats.total_requests]
    /\ rpc' = [rpc EXCEPT ![c] = "store_total"]
    /\ UNCHANGED <<stats, view, rcalls>>
    /\ UNCHANGED exceptReport

\* self.total_requests += 1: the write, and the return
StoreTotalRequests(c) ==
    /\ rpc[c] = "store_total"
    /\ stats' = [stats EXCEPT !.total_requests = rtmp[c] + 1]
    /\ rpc' = [rpc EXCEPT ![c] = "idle"]
    /\ UNCHANGED <<view, rtmp, rcalls>>
    /\ UNCHANGED exceptReport

(***************************************************************************)
(* BacktestResult.  An object is the record of its attributes; a keyword   *)
(* call hands the constructor a record of its keyword arguments.           *)
(***************************************************************************)
\* obj.name
getattr(obj, name) ==
    IF name \in DOMAIN obj THEN Ok(obj[name])
    ELSE Raise("AttributeError", name)

\* d.get(key, default)
dict_get(d, key, default) ==
    IF key \in Keys(d) THEN Lookup(d, key) ELSE default

\* pickle.dumps and pickle.loads: the bytes hold the value pickled
pickle_dumps(x) == [t |-> "bytes", pickle |-> x]
pickle_loads(b) == b.pickle

ResultFields == {"raw_results", "summary", "equity_curve", "trades"}
ResultRequired == {"raw_results", "summary", "equity_curve"}

\* BacktestResult(**kw): the __init__ the dataclass generates
BacktestResult(kw) ==
    IF DOMAIN kw \ ResultFields # {} THEN
        Raise("TypeError", "unexpected keyword argument")
    ELSE IF ResultRequired \ DOMAIN kw # {} THEN
        Raise("TypeError", "missing required argument")
    ELSE Ok([raw_results |-> kw.raw_results,
             summary |-> kw.summary,
             equity_curve |-> kw.equity_curve,
             trades |-> IF "trades" \in DOMAIN kw THEN kw.trades ELSE PyList(<<>>)])

\* BacktestResult.from_simulation
from_simulation(simulation_data) ==
    BacktestResult([raw_results |-> pickle_dumps(simulation_data),
                    stats |-> dict_get(simulation_data, "stats", PyDict(<<>>)),
                    equity_curve |-> dict_get(simulation_data, "equity_curve", PyList(<<>>)),
                    trades |-> dict_get(simulation_data, "trades", PyList(<<>>))])

\* BacktestResult.get_raw_results
get_raw_results(self) == pickle_loads(self.raw_results)

\* The simulation mappings: any of the keys, each with one of a few values.
SimStats == {PyDict(<<>>), PyDict(<<Item("a", PyFloat(3))>>)}
SimCurves == {PyList(<<>>), PyList(<<PyDict(<<Item("a", PyInt(1))>>)>>)}
SimTrades == {PyList(<<>>), PyList(<<PyDict(<<Item("b", PyInt(0))>>)>>)}

SimOptions ==
    <<{<<>>} \cup {<<Item("stats", x)>> : x \in SimStats},
      {<<>>} \cup {<<Item("summary", x)>> : x \in SimStats},
      {<<>>} \cup {<<Item("equity_curve", x)>> : x \in SimCurves},
      {<<>>} \cup {<<Item("trades", x)>> : x \in SimTrades}>>

SimulationData ==
    {PyDict(a \o b \o c \o d) :
        a \in SimOptions[1], b \in SimOptions[2],
        c \in SimOptions[3], d \in SimOptions[4]}

exceptResult == <<coreVars, statsVars, reportVars, apiVars, storageVars, messageVars>>

InitResult ==
    /\ sim \in SimulationData
    /\ made = NotCalled

FromSimulation ==
    /\ made = NotCalled
    /\ made' = from_simulation(sim)
    /\ UNCHANGED sim
    /\ UNCHANGED exceptResult

(***************************************************************************)
(* BacktestRecord.to_api_dict.  A text is the sequence of its characters.  *)
(***************************************************************************)
\* s[:16]
First16(s) == PyText(SubSeq(s.chars, 1, Min({16, Len(s.chars)})))

\* s + "..."
PlusEllipsis(s) == PyText(s.chars \o <<".", ".", ".">>)

\* datetime.isoformat(): the text that stands for the time t
isoformat(t) == [t |-> "str", isoformat |-> t]

\* The entries of the dict display are evaluated in the order written.
to_api_dict(self) ==
    LET stats_ == getattr(self.results, "stats")
        equity_curve_ == getattr(self.results, "equity_curve")
    IN  IF ~stats_.ok THEN stats_
        ELSE IF ~equity_curve_.ok THEN equity_curve_
        ELSE Ok([master_hash |-> self.identity.master_hash,
                 data_hash |-> PlusEllipsis(First16(self.identity.data_hash)),
                 strategy_hash |-> PlusEllipsis(First16(self.identity.strategy_hash)),
                 stats |-> stats_.val,
                 equity_curve |-> equity_curve_.val,
                 created_at |-> isoformat(self.metadata.created_at),
                 last_accessed |-> isoformat(self.metadata.last_accessed),
                 access_count |-> self.metadata.access_count,
                 execution_time_seconds |-> self.metadata.execution_time_seconds,
                 data_filename |-> self.metadata.data_filename,
                 data_rows |-> self.metadata.data_rows])

\* The identities, results and records that the constructors return.
Identities ==
    {r.val : r \in {q \in {BacktestIdentity(a[1], a[2], a[3], a[4]) :
                              a \in HashCandidates \X HashCandidates \X
                                    HashCandidates \X HashCandidates} : q.ok}}

Results ==
    {r.val : r \in {q \in {BacktestResult([raw_results |-> pickle_dumps(d),
                                            summary |-> x, equity_curve |-> y]) :
                              d \in {PyDict(<<>>), PyDict(<<Item("stats", PyDict(<<>>))>>)},
                              x \in SimStats, y \in SimCurves} : q.ok}}

ApiRecords ==
    {BacktestRecord(id, BacktestMetadata(0, l, DefaultAccessCount + l), r) :
        id \in Identities, l \in 0..1, r \in Results}

exceptApi == <<coreVars, statsVars, reportVars, resultVars, storageVars, messageVars>>

InitApi ==
    /\ arec \in ApiRecords
    /\ api = NotCalled

ToApiDict ==
    /\ api = NotCalled
    /\ api' = to_api_dict(arec)
    /\ UNCHANGED arec
    /\ UNCHANGED exceptApi

(***************************************************************************)
(* The message endpoints of main.py over the list messages_db.             *)
(***************************************************************************)
MaxMessages == 3

Texts == {"a", "b"}
Authors == {"Anonymous", "b"}
Stamps == 0..1
MessageIds == 0..(MaxMessages + 1)

\* Message(text=..., author=...)
Message(text, author) == [text |-> text, author |-> author]

ApiResponse(success, message, data) ==
    [success |-> success, message |-> message, data |-> data]

HTTPException(status_code, detail) ==
    [status_code |-> status_code, detail |-> detail]

\* the positions of messages_db whose message has the id
Matching(db, message_id) == {i \in 1..Len(db) : db[i].id = message_id}

\* [msg for msg in messages_db if msg["id"] != message_id]
RECURSIVE Without(_, _)
Without(db, message_id) ==
    IF db = <<>> THEN <<>>
    ELSE IF Head(db).id # message_id
         THEN <<Head(db)>> \o Without(Tail(db), message_id)
         ELSE Without(Tail(db), message_id)

exceptMessages == <<coreVars, statsVars, reportVars, apiVars, resultVars, storageVars>>

InitMessages ==
    /\ messages_db = <<>>
    /\ response = NotCalled

\* POST /messages, with t the value of time.time()
create_message(message, t) ==
    /\ Len(messages_db) < MaxMessages
    /\ LET new_message == [id |-> Len(messages_db) + 1, text |-> message.text,
                           author |-> message.author, timestamp |-> t]
       IN  /\ messages_db' = Append(messages_db, new_message)
           /\ response' = ApiResponse(TRUE, "Message created successfully", new_message)
    /\ UNCHANGED exceptMessages

\* PUT /messages/{message_id}: the first message with the id is updated
update_message(message_id, message) ==
    /\ IF Matching(messages_db, message_id) # {} THEN
           /\ messages_db' = [messages_db EXCEPT
                                 ![Min(Matching(messages_db, message_id))] =
                                     [@ EXCEPT !.text = message.text,
                                               !.author = message.author]]
           /\ response' = ApiResponse(TRUE, "Message updated",
                                      messages_db'[Min(Matching(messages_db, message_id))])
       ELSE
           /\ response' = HTTPException(404, "Message not found")
           /\ UNCHANGED messages_db
    /\ UNCHANGED exceptMessages

\* DELETE /messages/{message_id}
delete_message(message_id) ==
    /\ messages_db' = Without(messages_db, message_id)
    /\ response' = IF Len(messages_db') < Len(messages_db)
                   THEN ApiResponse(TRUE, "Message deleted", PyNone)
                   ELSE HTTPException(404, "Message not found")
    /\ UNCHANGED exceptMessages

(***************************************************************************)
(* A storage backend behind BacktestStorageInterface: the in-memory        *)
(* backend, a map from master hash to record, with its CacheStats.  A      *)
(* store on a master hash that is already stored overwrites the record.    *)
(* Time is counted in days.  Each call runs from start to end on its own.  *)
(***************************************************************************)
MaxDay == 2
MaxLookups == 3
MaxAgeDays == 2

\* The records a caller stores: two master hashes, two results.
StorageIdentities ==
    {id \in Identities :
        /\ id.data_hash = PyText(Texts64[1])
        /\ id.strategy_hash = PyText(Texts64[1])
        /\ id.params_hash = PyText(Texts64[1])
        /\ id.master_hash \in {PyText(Texts64[1]), PyText(Texts64[2])}}

StorageResults ==
    {r \in Results : r.raw_results = pickle_dumps(PyDict(<<>>))
                      /\ r.equity_curve = PyList(<<>>)}

\* The master hashes asked for: the two above and one that is never stored.
StorageKeys ==
    {id.master_hash : id \in StorageIdentities} \cup {PyText(Texts64[3])}

\* a record created today, not read since
NewRecords(today) ==
    {BacktestRecord(id, BacktestMetadata(today, today, DefaultAccessCount), r) :
        id \in StorageIdentities, r \in StorageResults}

StoredKeys(recs) == DOMAIN recs

\* store_record: the map after the call
store_record(recs, rec) ==
    [h \in StoredKeys(recs) \cup {BacktestRecord_master_hash(rec)} |->
        IF h = BacktestRecord_master_hash(rec) THEN rec ELSE recs[h]]

\* record_exists
record_exists(recs, master_hash) == master_hash \in StoredKeys(recs)

\* The record stays where it is.
delete_record_keeps_record(recs, master_hash) == recs

\* delete_record: the map after the call
delete_record(recs, master_hash) ==
    [h \in StoredKeys(recs) \ {master_hash} |-> recs[h]]

\* The age is taken from the last read.
old_records_by_last_accessed(recs, today, days_old) ==
    {h \in StoredKeys(recs) : recs[h].metadata.last_accessed < today - days_old}

\* cleanup_old_records: the master hashes older than days_old days
old_records(recs, today, days_old) ==
    {h \in StoredKeys(recs) : recs[h].metadata.created_at < today - days_old}

\* A call and what it returned, both as Python values.
Call(op, key, result) == [op |-> op, key |-> key, result |-> result]
PyTrue == PyBool(1)
PyFalse == PyBool(0)
bool(b) == IF b THEN PyTrue ELSE PyFalse

exceptStorage == <<coreVars, statsVars, reportVars, apiVars, resultVars, messageVars>>

InitStorage ==
    /\ records = <<>>
    /\ cstats = CacheStats
    /\ clock = 0
    /\ ret = NotCalled

\* a day passes
NextDay ==
    /\ clock < MaxDay
    /\ clock' = clock + 1
    /\ UNCHANGED <<records, cstats, ret>>
    /\ UNCHANGED exceptStorage

StoreRecord(rec) ==
    /\ records' = store_record(records, rec)
    /\ ret' = Call("store_record", BacktestRecord_master_hash(rec), PyTrue)
    /\ UNCHANGED <<cstats, clock>>
    /\ UNCHANGED exceptStorage

\* get_record: a hit marks the record accessed and returns it
GetRecord(master_hash) ==
    /\ cstats.total_requests < MaxLookups
    /\ IF record_exists(records, master_hash) THEN
           /\ records' = [records EXCEPT ![master_hash] =
                             BacktestRecord_mark_accessed(@, clock)]
           /\ cstats' = record_hit(cstats)
           /\ ret' = Call("get_record", master_hash, records'[master_hash])
       ELSE
           /\ cstats' = record_miss(cstats)
           /\ ret' = Call("get_record", master_hash, PyNone)
           /\ UNCHANGED records
    /\ UNCHANGED clock
    /\ UNCHANGED exceptStorage

RecordExists(master_hash) ==
    /\ ret' = Call("record_exists", master_hash,
                   bool(record_exists(records, master_hash)))
    /\ UNCHANGED <<records, cstats, clock>>
    /\ UNCHANGED exceptStorage

DeleteRecord(master_hash) ==
    /\ records' = delete_record(records, master_hash)
    /\ ret' = Call("delete_record", master_hash,
                   bool(record_exists(records, master_hash)))
    /\ UNCHANGED <<cstats, clock>>
    /\ UNCHANGED exceptStorage

CleanupOldRecords(days_old) ==
    /\ records' = [h \in StoredKeys(records) \ old_records(records, clock, days_old)
                      |-> records[h]]
    /\ ret' = Call("cleanup_old_records", PyInt(days_old),
                   PyInt(Cardinality(old_records(records, clock, days_old))))
    /\ UNCHANGED <<cstats, clock>>
    /\ UNCHANGED exceptStorage

(***************************************************************************)
(* The specifications.  Each starts the components it does not drive in    *)
(* one fixed state.                                                        *)
(***************************************************************************)
IdleHash     == cfg = PyDict(<<>>) /\ InitHash
IdleMaster   == comp = <<<<>>, <<>>, <<>>>> /\ InitMaster
IdleIdentity == args = <<PyNone, PyNone, PyNone, PyNone>> /\ InitIdentity
IdleAccess   == record = BacktestRecord("id1", BacktestMetadata(0, 0, DefaultAccessCount), "results1")
                /\ InitAccess
IdleStats    == InitStats
IdleReport   == InitReport
IdleApi      == arec = NotCalled /\ api = NotCalled
IdleResult   == sim = PyDict(<<>>) /\ made = NotCalled
IdleStorage  == records = <<>> /\ cstats = CacheStats /\ clock = 0 /\ ret = NotCalled
IdleMessages == messages_db = <<>> /\ response = NotCalled
IdleExtra    == IdleReport /\ IdleApi /\ IdleResult /\ IdleStorage /\ IdleMessages

InitH == cfg \in Configs /\ InitHash
         /\ IdleMaster /\ IdleIdentity /\ IdleAccess /\ IdleStats /\ IdleExtra
NextHash == ReorderKeys \/ ReorderLists \/ EditScalar \/ HashStrategyConfig \/ HashParameters
SpecHash == InitH /\ [][NextHash]_vars

InitM == comp \in CompStrings \X CompStrings \X CompStrings /\ InitMaster
         /\ IdleHash /\ IdleIdentity /\ IdleAccess /\ IdleStats /\ IdleExtra
NextMaster == CreateBacktestHash
SpecMaster == InitM /\ [][NextMaster]_vars

InitI == args \in HashCandidates \X HashCandidates \X HashCandidates \X MasterCandidates
         /\ InitIdentity
         /\ IdleHash /\ IdleMaster /\ IdleAccess /\ IdleStats /\ IdleExtra
NextIdentity == Construct
SpecIdentity == InitI /\ [][NextIdentity]_vars

InitA == record \in Records /\ InitAccess
         /\ IdleHash /\ IdleMaster /\ IdleIdentity /\ IdleStats /\ IdleExtra
NextAccess == Tick \/ MarkAccessed
SpecAccess == InitA /\ [][NextAccess]_vars

NextConc ==
    \/ Tick
    \/ \E c \in Callers : SetLastAccessed(c)
    \/ \E c \in Callers : LoadAccessCount(c)
    \/ \E c \in Callers : StoreAccessCount(c)
SpecConc == InitA /\ [][NextConc]_vars

IdleCore == IdleHash /\ IdleMaster /\ IdleIdentity /\ IdleAccess

InitS == IdleStats /\ IdleCore /\ IdleExtra
NextStats == RecordHit \/ RecordMiss \/ ToDict
SpecStats == InitS /\ [][NextStats]_vars

InitR == InitStats /\ InitReport /\ IdleCore
         /\ IdleApi /\ IdleResult /\ IdleStorage /\ IdleMessages
NextReport ==
    \/ \E c \in Reporters : LoadCacheHits(c)
    \/ \E c \in Reporters : StoreCacheHits(c)
    \/ \E c \in Reporters : LoadCacheMisses(c)
    \/ \E c \in Reporters : StoreCacheMisses(c)
    \/ \E c \in Reporters : LoadTotalRequests(c)
    \/ \E c \in Reporters : StoreTotalRequests(c)
    \/ ToDict
SpecReport == InitR /\ [][NextReport]_vars

InitP == InitApi /\ IdleCore /\ IdleStats
         /\ IdleReport /\ IdleResult /\ IdleStorage /\ IdleMessages
NextApi == ToApiDict
SpecApi == InitP /\ [][NextApi]_vars

InitF == InitResult /\ IdleCore /\ IdleStats
         /\ IdleReport /\ IdleApi /\ IdleStorage /\ IdleMessages
NextResult == FromSimulation
SpecResult == InitF /\ [][NextResult]_vars

InitD == InitMessages /\ IdleCore /\ IdleStats
         /\ IdleReport /\ IdleApi /\ IdleResult /\ IdleStorage
NextMessages ==
    \/ \E text \in Texts, author \in Authors, t \in Stamps :
          create_message(Message(text, author), t)
    \/ \E message_id \in MessageIds, text \in Texts, author \in Authors :
          update_message(message_id, Message(text, author))
    \/ \E message_id \in MessageIds : delete_message(message_id)
SpecMessages == InitD /\ [][NextMessages]_vars

InitB == InitStorage /\ IdleCore /\ IdleStats
         /\ IdleReport /\ IdleApi /\ IdleResult /\ IdleMessages
NextStorage ==
    \/ NextDay
    \/ \E rec \in NewRecords(clock) : StoreRecord(rec)
    \/ \E master_hash \in StorageKeys : GetRecord(master_hash)
    \/ \E master_hash \in StorageKeys : RecordExists(master_hash)
    \/ \E master_hash \in StorageKeys : DeleteRecord(master_hash)
    \/ \E days_old \in 0..MaxAgeDays : CleanupOldRecords(days_old)
SpecStorage == InitB /\ [][NextStorage]_vars

(***************************************************************************)
(* The properties checked.                                                 *)
(***************************************************************************)
Hashed == fn # "none"

TypeClass(x) == IF IsNum(x) THEN "number" ELSE x.t

IsPermutation(s, u) ==
    /\ Len(s) = Len(u)
    /\ \E p \in Orderings(Len(s)) : u = [i \in 1..Len(s) |-> s[p[i]]]

\* every element a number, or every element a string
ComparableScalars(es) ==
    \/ \A i \in 1..Len(es) : IsNum(es[i])
    \/ \A i \in 1..Len(es) : es[i].t = "str"

\* w is v with lists of mutually comparable scalars re-ordered, and nothing else changed
RECURSIVE PermOfScalarLists(_, _)
PermOfScalarLists(v, w) ==
    IF v.t # w.t THEN FALSE
    ELSE IF v.t = "dict" THEN
        /\ Len(v.items) = Len(w.items)
        /\ \A i \in 1..Len(v.items) :
            /\ v.items[i].k = w.items[i].k
            /\ PermOfScalarLists(v.items[i].val, w.items[i].val)
    ELSE IF v.t = "list" THEN
        IF ComparableScalars(v.elems) THEN IsPermutation(v.elems, w.elems)
        ELSE /\ Len(v.elems) = Len(w.elems)
             /\ \A i \in 1..Len(v.elems) : PermOfScalarLists(v.elems[i], w.elems[i])
    ELSE v = w

\* some list, at any depth, holds two elements of types with no ordering between them
RECURSIVE HasMixedList(_)
HasMixedList(v) ==
    IF v.t = "dict" THEN \E i \in 1..Len(v.items) : HasMixedList(v.items[i].val)
    ELSE IF v.t = "list" THEN
        \/ \E i, j \in 1..Len(v.elems) : TypeClass(v.elems[i]) # TypeClass(v.elems[j])
        \/ \E i \in 1..Len(v.elems) : HasMixedList(v.elems[i])
    ELSE FALSE

IsScalar(x) == x.t \notin {"dict", "list"}

\* every list of v holds mappings only, and these hold scalars only
RECURSIVE OnlyMappingLists(_)
OnlyMappingLists(v) ==
    IF v.t = "dict" THEN \A i \in 1..Len(v.items) : OnlyMappingLists(v.items[i].val)
    ELSE IF v.t = "list" THEN
        \A i \in 1..Len(v.elems) :
            /\ v.elems[i].t = "dict"
            /\ \A j \in 1..Len(v.elems[i].items) : IsScalar(v.elems[i].items[j].val)
    ELSE TRUE

RECURSIVE HasList(_)
HasList(v) ==
    IF v.t = "dict" THEN \E i \in 1..Len(v.items) : HasList(v.items[i].val)
    ELSE v.t = "list"

\* at some place both values hold a scalar, and the two scalars are unequal
RECURSIVE DiffersInScalar(_, _)
DiffersInScalar(v, w) ==
    IF v.t = "dict" /\ w.t = "dict" THEN
        \E k \in Keys(v) \cap Keys(w) : DiffersInScalar(Lookup(v, k), Lookup(w, k))
    ELSE IF v.t = "list" /\ w.t = "list" THEN
        \E i \in 1..Len(v.elems) :
            i <= Len(w.elems) /\ DiffersInScalar(v.elems[i], w.elems[i])
    ELSE IsScalar(v) /\ IsScalar(w) /\ ~PyEq(v, w)

\* C1: a mapping and the same mapping with the keys of it and of every nested
\* mapping inserted in another order get the same outcome, and so the same
\* digest, from hash_strategy_config and from hash_parameters.
C1_KeyOrderIndependent ==
    (Hashed /\ rel = "keys") => res = resAlt

\* C1: both the top-level mapping and a nested mapping were re-ordered, and hashed.
C1_Witness ==
    /\ fn = "hash_strategy_config" /\ rel = "keys"
    /\ res.ok /\ res = resAlt
    /\ Len(cfg.items) = 2 /\ cfg.items[1].k # alt.items[1].k
    /\ \E i \in 1..2 : /\ cfg.items[i].val.t = "dict"
                       /\ cfg.items[i].val # Lookup(alt, cfg.items[i].k)

\* C2: re-ordering lists of mutually comparable scalars, at any depth, changes
\* neither the canonical form nor the digest.
C2_ListOrderIndependent ==
    (Hashed /\ rel = "lists" /\ PermOfScalarLists(cfg, alt)) =>
        /\ normalize_dict(cfg) = normalize_dict(alt)
        /\ res = resAlt

\* C3: a value holding, at any depth, a list that mixes types with no ordering
\* between them gets a TypeError and no digest from either hash function.
C3_MixedListFails ==
    Hashed =>
        /\ HasMixedList(cfg) => (~res.ok /\ res.exc = "TypeError")
        /\ HasMixedList(alt) => (~resAlt.ok /\ resAlt.exc = "TypeError")

\* C3: the mixed list lies inside a list, which lies inside the mapping hashed.
C3_Witness ==
    /\ Hashed /\ ~res.ok
    /\ \E i \in 1..Len(cfg.items) :
        /\ cfg.items[i].val.t = "list"
        /\ \A j, k \in 1..Len(cfg.items[i].val.elems) :
            TypeClass(cfg.items[i].val.elems[j]) = TypeClass(cfg.items[i].val.elems[k])
        /\ \E j \in 1..Len(cfg.items[i].val.elems) : HasMixedList(cfg.items[i].val.elems[j])

\* C4: a value whose lists hold mappings only is hashed without an error, and
\* with these lists re-ordered it gets the same digest.
C4_MappingListsSort ==
    (Hashed /\ HasList(cfg) /\ OnlyMappingLists(cfg)) =>
        /\ res.ok
        /\ rel = "lists" => (resAlt.ok /\ res = resAlt)

NoColon(str) == \A i \in 1..Len(str) : str[i] # ":"

\* C6, as stated: for any strings a # b, and any c, the master hash of (a, b, c)
\* differs from the master hash of (b, a, c).
C6_OrderSensitive ==
    (master # NoDigest /\ comp[1] # comp[2]) => master # masterSwap

\* C6, amended: for strings a # b that hold no ":", as hexadecimal digests do,
\* and any c, the string digested for (a, b, c) differs from the one digested
\* for (b, a, c), and so the master hashes differ.
C6_OrderSensitiveNoDelimiter ==
    (master # NoDigest /\ comp[1] # comp[2] /\ NoColon(comp[1]) /\ NoColon(comp[2])) =>
        /\ master.sha256 # masterSwap.sha256
        /\ master # masterSwap

\* C6: the master hash of two different components without ":" has been taken,
\* the second a prefix of the first.
C6_Witness ==
    /\ master # NoDigest
    /\ comp[1] = <<"a", "b">> /\ comp[2] = <<"a">>
    /\ master # masterSwap

IsHexString(x) ==
    /\ isinstance_str(x)
    /\ Len(x.chars) = HashLen
    /\ \A i \in 1..Len(x.chars) : x.chars[i] \in HexChars

\* C7: the constructor returns an identity only when each of the four values is a
\* string of 64 hexadecimal characters; otherwise it raises and no identity exists.
C7_OnlyHexIdentities ==
    raised # "not called" =>
        /\ identity # NoIdentity <=> \A i \in 1..4 : IsHexString(args[i])
        /\ identity = NoIdentity => raised = "ValueError"

\* C8: every call of mark_accessed adds exactly 1 to access_count, sets
\* last_accessed to the current time and leaves created_at, the other metadata,
\* the identity and the results as they were; a record created with the default
\* count has access_count = 1 + n after n calls.
C8_MarkAccessed ==
    /\ [][calls' = calls + 1 =>
            /\ record'.metadata.access_count = record.metadata.access_count + 1
            /\ record'.metadata.last_accessed = now
            /\ record' = [record EXCEPT !.metadata.access_count = @ + 1,
                                        !.metadata.last_accessed = now]
            /\ record'.metadata.created_at = record0.metadata.created_at
            /\ record'.identity = record0.identity
            /\ record'.results = record0.results]_vars
    /\ [](record0.metadata.access_count = DefaultAccessCount =>
            record.metadata.access_count = 1 + calls)

\* C8: three calls, the last after the clock has advanced, on a record created
\* with the default count.
C8_Witness ==
    /\ record0.metadata.access_count = DefaultAccessCount
    /\ calls = 3
    /\ record.metadata.access_count = 4
    /\ record.metadata.last_accessed = 2
    /\ record.metadata.created_at = 0

\* C9: with the callers' steps interleaved, once all callers have returned
\* access_count is higher by the number of callers, and at no moment does the
\* record show a last_accessed that has moved and an access_count that has not.
C9_AtomicMarkAccessed ==
    /\ (\A c \in Callers : pc[c] = "done") =>
            record.metadata.access_count = record0.metadata.access_count + NumCallers
    /\ record.metadata.last_accessed # record0.metadata.last_accessed =>
            record.metadata.access_count > record0.metadata.access_count

\* C10: without requests hit_rate and miss_rate are 0, and to_dict reports both
\* as 0; with requests hit_rate = cache_hits / total_requests and
\* miss_rate = cache_misses / total_requests.
C10_Rates ==
    /\ stats.total_requests = 0 =>
            /\ RatEq(hit_rate(stats), Rat(0, 1))
            /\ RatEq(miss_rate(stats), Rat(0, 1))
    /\ (view # NoView /\ view.total_requests = 0) =>
            (view.hit_rate = 0 /\ view.miss_rate = 0)
    /\ stats.total_requests > 0 =>
            /\ RatEq(hit_rate(stats), Rat(stats.cache_hits, stats.total_requests))
            /\ RatEq(miss_rate(stats), Rat(stats.cache_misses, stats.total_requests))

(***************************************************************************)
(* C11: with record_hit and record_miss called from several threads and    *)
(* a reader taking to_dict(), every view the reader takes has              *)
(* cache_hits + cache_misses = total_requests, and once every call has     *)
(* returned total_requests is the number of calls made.                    *)
(***************************************************************************)
C11_CountersNeverTornOrLost ==
    /\ view # NoView => view.cache_hits + view.cache_misses = view.total_requests
    /\ (\A c \in Reporters : rpc[c] = "idle") => stats.total_requests = rcalls

(***************************************************************************)
(* C17: on a CacheStats created with its defaults, after any sequence of   *)
(* record_hit and record_miss calls made one after the other,              *)
(* cache_hits + cache_misses = total_requests; record_hit adds one to      *)
(* cache_hits and to total_requests and changes nothing else, record_miss  *)
(* adds one to cache_misses and to total_requests and changes nothing      *)
(* else.                                                                   *)
(***************************************************************************)
SameRecordCounts(s, t) ==
    /\ t.total_records = s.total_records
    /\ t.total_data_hashes = s.total_data_hashes
    /\ t.total_strategy_hashes = s.total_strategy_hashes

C17_HitsPlusMisses ==
    /\ [](stats.cache_hits + stats.cache_misses = stats.total_requests)
    /\ [][RecordHit =>
            /\ stats'.cache_hits = stats.cache_hits + 1
            /\ stats'.total_requests = stats.total_requests + 1
            /\ stats'.cache_misses = stats.cache_misses
            /\ SameRecordCounts(stats, stats')]_vars
    /\ [][RecordMiss =>
            /\ stats'.cache_misses = stats.cache_misses + 1
            /\ stats'.total_requests = stats.total_requests + 1
            /\ stats'.cache_hits = stats.cache_hits
            /\ SameRecordCounts(stats, stats')]_vars

C17_Witness ==
    /\ stats.cache_hits >= 2
    /\ stats.cache_misses >= 2
    /\ stats.total_requests = stats.cache_hits + stats.cache_misses

(***************************************************************************)
(* C12: for every validly constructed BacktestRecord, to_api_dict returns  *)
(* a view and not an error; the view holds the full master hash, the data  *)
(* and strategy hashes cut to their first 16 characters followed by "...", *)
(* the result's summary statistics and equity curve, and the metadata's    *)
(* timestamps and access count.                                            *)
(***************************************************************************)
C12_ToApiDictReturnsView ==
    api # NotCalled =>
        /\ api.ok
        /\ api.val.master_hash = arec.identity.master_hash
        /\ api.val.data_hash.chars =
               SubSeq(arec.identity.data_hash.chars, 1, 16) \o <<".", ".", ".">>
        /\ api.val.strategy_hash.chars =
               SubSeq(arec.identity.strategy_hash.chars, 1, 16) \o <<".", ".", ".">>
        /\ api.val.stats = arec.results.summary
        /\ api.val.equity_curve = arec.results.equity_curve
        /\ api.val.created_at = isoformat(arec.metadata.created_at)
        /\ api.val.last_accessed = isoformat(arec.metadata.last_accessed)
        /\ api.val.access_count = arec.metadata.access_count

(***************************************************************************)
(* C16: from_simulation(d) returns, for every simulation mapping d, a      *)
(* BacktestResult whose summary, equity_curve and trades are taken from d  *)
(* (empty when d has none) and whose raw payload decodes back to d.        *)
(***************************************************************************)
C16_FromSimulationRoundTrip ==
    made # NotCalled =>
        /\ made.ok
        /\ PyEq(get_raw_results(made.val), sim)
        /\ made.val.summary = dict_get(sim, "stats", PyDict(<<>>))
        /\ made.val.equity_curve = dict_get(sim, "equity_curve", PyList(<<>>))
        /\ made.val.trades = dict_get(sim, "trades", PyList(<<>>))

(***************************************************************************)
(* C18: every BacktestIdentity that was constructed has a master_hash      *)
(* equal to create_backtest_hash(data_hash, strategy_hash, params_hash) of *)
(* its own three component hashes.                                         *)
(***************************************************************************)
DerivedFrom(id) ==
    hexdigest(create_backtest_hash(id.data_hash.chars, id.strategy_hash.chars,
                                   id.params_hash.chars))

C18_MasterMatchesComponents ==
    identity # NoIdentity => Concat(identity.master_hash.chars) = DerivedFrom(identity)

(***************************************************************************)
(* C18 as amended: every BacktestIdentity that was constructed holds the   *)
(* four values it was given, each a str of exactly 64 characters; its      *)
(* master_hash is the one the caller passed, so it equals                  *)
(* create_backtest_hash of the components exactly when the caller passed   *)
(* that value.                                                             *)
(***************************************************************************)
C18_MasterIsTheOneGiven ==
    identity # NoIdentity =>
        /\ identity.data_hash = args[1]
        /\ identity.strategy_hash = args[2]
        /\ identity.params_hash = args[3]
        /\ identity.master_hash = args[4]
        /\ \A f \in DOMAIN identity :
               isinstance_str(identity[f]) /\ Len(identity[f].chars) = HashLen
        /\ (Concat(identity.master_hash.chars) = DerivedFrom(identity))
              <=> (Concat(args[4].chars) = DerivedFrom(identity))

C18_Witness ==
    /\ identity # NoIdentity
    /\ Concat(identity.master_hash.chars) = DerivedFrom(identity)
    /\ identity.master_hash = DerivedMaster

(***************************************************************************)
(* C19: after any sequence of create_message, update_message and           *)
(* delete_message calls, no two messages of messages_db have the same id,  *)
(* so that an id names at most one message.                                *)
(***************************************************************************)
C19_UniqueMessageIds ==
    \A message_id \in MessageIds :
        Cardinality(Matching(messages_db, message_id)) <= 1

Returned(op) == ret # NotCalled /\ ret.op = op

\* the step ends a call of op
Returns(op) == ret' # NotCalled /\ ret'.op = op

C14_ExistsFollowsStoreAndDelete ==
    /\ [][\A h \in StorageKeys :
            Returns("record_exists") /\ RecordExists(h) =>
                /\ Returned("store_record") /\ ret.key = h => ret'.result = PyTrue
                /\ Returned("delete_record") /\ ret.key = h => ret'.result = PyFalse
                /\ records' = records
                /\ cstats' = cstats]_vars
    /\ [][\A h \in StorageKeys :
            Returns("delete_record") /\ DeleteRecord(h) =>
                /\ ret'.result \in {PyTrue, PyFalse}
                /\ h \notin DOMAIN records'
                /\ h \notin DOMAIN records => records' = records
                /\ \A k \in DOMAIN records \ {h} :
                       k \in DOMAIN records' /\ records'[k] = records[k]
                /\ cstats' = cstats]_vars

C14_Witness ==
    /\ Returned("record_exists")
    /\ ret.result = PyFalse
    /\ ret.key \in {id.master_hash : id \in StorageIdentities}
    /\ cstats.cache_hits >= 1
    /\ DOMAIN records # {}

(***************************************************************************)
(* C15: cleanup_old_records(days) deletes exactly the stored records whose *)
(* created_at is older than now - days and returns their number; every     *)
(* other record stays stored as it was, whatever its last_accessed and     *)
(* access_count.                                                           *)
(***************************************************************************)
C15_CleanupByCreationAge ==
    [][\A days_old \in 0..MaxAgeDays :
        Returns("cleanup_old_records") /\ CleanupOldRecords(days_old) =>
            /\ DOMAIN records' =
                   {h \in DOMAIN records :
                       ~(records[h].metadata.created_at < clock - days_old)}
            /\ \A h \in DOMAIN records' : records'[h] = records[h]
            /\ ret'.result = PyInt(Cardinality(DOMAIN records \ DOMAIN records'))]_vars

C15_Witness ==
    /\ Returned("cleanup_old_records")
    /\ ret.result = PyInt(1)
    /\ cstats.cache_hits >= 1
    /\ \E h \in DOMAIN records :
           /\ records[h].metadata.created_at = clock - ret.key.v
           /\ records[h].metadata.access_count = DefaultAccessCount

====
